---- MODULE Spec2Model ----
(***************************************************************************)
(* Checkout / return bookkeeping of the library API.                       *)
(*                                                                         *)
(* The stored state is the Book table (total_copies, available_copies)     *)
(* and the Checkout table.  Every request is handled by a process that     *)
(* walks through the handler's database statements one at a time: the      *)
(* project runs the ORM in autocommit mode (no ATOMIC_REQUESTS, no         *)
(* transaction.atomic, no select_for_update), so each statement is its own *)
(* transaction and statements of concurrent requests interleave.           *)
(*                                                                         *)
(* The views look rows up by book_id / checkout_id; the lookup is taken to *)
(* find the row with that identifier.  Building the response body reads    *)
(* no stored state and writes none, and is not modelled.                   *)
(*                                                                         *)
(* Times are integers counted in clock ticks, DAY ticks to the day.        *)
(* Money is counted in hundredths (late_fee 3.00 is 300).                  *)
(***************************************************************************)
EXTENDS Integers, Sequences, FiniteSets, TLC

\* ---------------------------------------------------------------- bounds
\* library members
NumUsers == 2
\* the largest total_copies of a book
MaxCopies == 2
\* Checkout rows ever inserted
MaxRows == 2
\* calls of a sequential run
MaxCalls == 4
\* days the clock runs past the loan period
MaxLateDays == 4
\* Checkout rows of a run with a running clock
MaxTimedRows == 1
\* clock ticks per day (the resolution of the model's clock)
DAY == 2
\* calls handled one after another before two calls race
MaxSetup == 2

Users == 1..NumUsers
\* one book: no statement of checkout or return_book reads or writes a row
\* of another book
BookIds == {1}
\* two request workers
Procs == {1, 2}

\* ------------------------------------------------------ program constants
\* views.py: due_date = timezone.now() + timedelta(days=14)
LOAN_DAYS == 14
\* models.py: late_fee = days_late * 1.00, in hundredths
FEE_PER_DAY == 100
\* return_date = NULL
None == -1
\* a key the request body does not hold
Absent == -2

\* the instants at which a run with a running clock reads the clock: the
\* start, a tick later, a day before / at / a tick after the due date of a
\* loan made at the start, and MaxLateDays - 1 days (and a tick) after it
Instants ==
    {0, 1, (LOAN_DAYS - 1) * DAY, LOAN_DAYS * DAY, LOAN_DAYS * DAY + 1,
     (LOAN_DAYS + MaxLateDays - 1) * DAY, (LOAN_DAYS + MaxLateDays - 1) * DAY + 1}

VARIABLES signals_connected, now, books, checkouts, procs, log

vars == <<signals_connected, now, books, checkouts, procs, log>>

\* ------------------------------------------------------------ the models

\* a PositiveIntegerField whose minimum is not validated
PositiveIntegerField_unvalidated(v) == TRUE

\* django.db.models.PositiveIntegerField: the field validators that
\* full_clean() runs reject a negative value.
PositiveIntegerField(v) == v >= 0

\* Book.clean
Book_clean(b) ==
    /\ ~(b.available_copies > b.total_copies)
    /\ ~(b.total_copies < 1)

\* Book.full_clean as called by Book.save: field validators, then clean()
Book_full_clean(b) ==
    /\ PositiveIntegerField(b.total_copies)
    /\ PositiveIntegerField(b.available_copies)
    /\ Book_clean(b)

\* the primary keys of the stored Checkout rows
Pks == 1..Len(checkouts)

\* Checkout.objects.filter(user=u, book=b, is_returned=r)
Checkout_filter(rows, u, b, r) ==
    {k \in 1..Len(rows) : /\ rows[k].user = u
                          /\ rows[k].book = b
                          /\ rows[k].is_returned = r}

\* the largest element of a non-empty set of integers
SetMax(S) == CHOOSE x \in S : \A y \in S : y <= x

\* .first() under Meta.ordering = ['-checkout_date']: the newest row (ties
\* broken by the database; the model takes the highest primary key)
Checkout_first(rows, S) ==
    LET newest == {k \in S : \A j \in S : rows[j].checkout_date <= rows[k].checkout_date}
    IN SetMax(newest)

\* Checkout.clean: TRUE when no ValidationError is raised
Checkout_clean(rows, c) ==
    /\ c.is_returned \/ (Checkout_filter(rows, c.user, c.book, FALSE) \ {c.pk}) = {}
    /\ ~(c.return_date # None /\ c.return_date < c.checkout_date)

\* Model.validate_unique for Meta.unique_together = [user, book, is_returned]
Checkout_validate_unique(rows, c) ==
    (Checkout_filter(rows, c.user, c.book, c.is_returned) \ {c.pk}) = {}

\* a Checkout table without the unique index
unique_together_missing(rows, c) == TRUE

\* the unique index the database keeps for unique_together
unique_together(rows, c) ==
    (Checkout_filter(rows, c.user, c.book, c.is_returned) \ {c.pk}) = {}

\* timedelta.days of a positive difference
days(d) == d \div DAY

\* Checkout.save, the part before full_clean(): the due date default and
\* the late fee
Checkout_presave(c, t) ==
    LET c1 == IF c.due_date = None
              THEN [c EXCEPT !.due_date = t + LOAN_DAYS * DAY]
              ELSE c
    IN IF c1.return_date # None /\ c1.return_date > c1.due_date /\ ~c1.is_returned
       THEN [c1 EXCEPT !.late_fee = days(c1.return_date - c1.due_date) * FEE_PER_DAY]
       ELSE c1

\* an unsaved Checkout instance with the model's field defaults
NoCheckout ==
    [pk |-> 0, user |-> 0, book |-> 0, checkout_date |-> None, due_date |-> None,
     return_date |-> None, is_returned |-> FALSE, late_fee |-> 0]

\* the stored row of an instance
Row(c) ==
    [user |-> c.user, book |-> c.book, checkout_date |-> c.checkout_date,
     due_date |-> c.due_date, return_date |-> c.return_date,
     is_returned |-> c.is_returned, late_fee |-> c.late_fee]

\* the instance loaded from a stored row
Instance(rows, k) ==
    [pk |-> k, user |-> rows[k].user, book |-> rows[k].book,
     checkout_date |-> rows[k].checkout_date, due_date |-> rows[k].due_date,
     return_date |-> rows[k].return_date, is_returned |-> rows[k].is_returned,
     late_fee |-> rows[k].late_fee]

NoBook == [total_copies |-> 0, available_copies |-> 0]

\* Whether the post_save receivers of signals.py are registered.  The
\* @receiver decorators register them when the module is imported, which is
\* the app configuration's doing; both deployments are modelled.
Registrations == BOOLEAN

\* ---------------------------------------------------------- the requests

\* a worker with no request.  wrote and skipped record what the request
\* has done so far: a write to the database, and a receiver that found the
\* counter at its limit and left its adjustment out.
Idle ==
    [pc |-> "idle", op |-> "none", user |-> 0, book_id |-> 0, book |-> NoBook,
     checkout |-> NoCheckout, sbook |-> NoBook, result |-> "none", wrote |-> FALSE,
     skipped |-> FALSE]

\* the handler returns (a Response or an uncaught exception): its local
\* objects are dropped
Return(p, r) ==
    [procs[p] EXCEPT !.pc = "done", !.result = r, !.book = NoBook,
                     !.checkout = NoCheckout, !.sbook = NoBook]

Goto(p, l) == [procs[p] EXCEPT !.pc = l]

\* the rows a not yet finished checkout request may still insert
Pending == Cardinality({p \in Procs : procs[p].op = "checkout" /\ procs[p].pc # "done"})

TypeOK ==
    /\ signals_connected \in BOOLEAN
    /\ now \in Nat
    /\ \A b \in BookIds : books[b].total_copies \in Int /\ books[b].available_copies \in Int
    /\ Len(checkouts) <= MaxRows

\* --------------------------------------------- BookViewSet.checkout steps

\* a request arrives: POST books/<book_id>/checkout/ or .../return_book/
\* with request.user = u
Start(p, o, u, b) ==
    /\ procs[p].pc = "idle"
    /\ o = "checkout" => Len(checkouts) + Pending < MaxRows
    /\ procs' = [procs EXCEPT ![p] = [Idle EXCEPT !.pc = IF o = "checkout" THEN "ck_get" ELSE "rt_get",
                                                  !.op = o, !.user = u, !.book_id = b]]
    /\ UNCHANGED <<signals_connected, now, books, checkouts, log>>

\* book = get_object_or_404(...); if book.available_copies < 1: 400
checkout_get(p) ==
    /\ procs[p].pc = "ck_get"
    /\ LET book == books[procs[p].book_id]
       IN procs' = [procs EXCEPT ![p] =
                      IF book.available_copies < 1
                      THEN Return(p, "no_copies")
                      ELSE [procs[p] EXCEPT !.pc = "ck_exists", !.book = book]]
    /\ UNCHANGED <<signals_connected, now, books, checkouts, log>>

\* if Checkout.objects.filter(..., is_returned=False).exists(): 400;
\* otherwise the arguments of Checkout.objects.create are evaluated
checkout_exists(p) ==
    /\ procs[p].pc = "ck_exists"
    /\ procs' = [procs EXCEPT ![p] =
                   IF Checkout_filter(checkouts, procs[p].user, procs[p].book_id, FALSE) # {}
                   THEN Return(p, "already")
                   ELSE [procs[p] EXCEPT !.pc = "ck_clean",
                            !.checkout = [NoCheckout EXCEPT !.user = procs[p].user,
                                                            !.book = procs[p].book_id,
                                                            !.due_date = now + LOAN_DAYS * DAY]]]
    /\ UNCHANGED <<signals_connected, now, books, checkouts, log>>

\* Checkout.objects.create -> Checkout.save up to the end of full_clean().
\* clean() and validate_unique() each query the table; the two queries ask
\* the same question here and raise the same exception, so they are one step.
checkout_full_clean(p) ==
    /\ procs[p].pc = "ck_clean"
    /\ LET c == Checkout_presave(procs[p].checkout, now)
       IN procs' = [procs EXCEPT ![p] =
                      IF Checkout_clean(checkouts, c) /\ Checkout_validate_unique(checkouts, c)
                      THEN [procs[p] EXCEPT !.pc = "ck_insert", !.checkout = c]
                      ELSE Return(p, "ValidationError")]
    /\ UNCHANGED <<signals_connected, now, books, checkouts, log>>

\* super().save(): the INSERT; checkout_date is auto_now_add
checkout_insert(p) ==
    /\ procs[p].pc = "ck_insert"
    /\ LET c == [procs[p].checkout EXCEPT !.checkout_date = now, !.pk = Len(checkouts) + 1]
       IN IF unique_together(checkouts, c)
          THEN /\ checkouts' = Append(checkouts, Row(c))
               /\ procs' = [procs EXCEPT ![p] =
                              [procs[p] EXCEPT !.pc = IF signals_connected THEN "ck_signal" ELSE "ck_save",
                                               !.checkout = c, !.wrote = TRUE]]
          ELSE /\ procs' = [procs EXCEPT ![p] = Return(p, "IntegrityError")]
               /\ UNCHANGED checkouts
    /\ UNCHANGED <<signals_connected, now, books, log>>

\* post_save receiver update_book_availability_on_checkout; instance.book is
\* the view's own book object.  (update_book_availability_on_return does
\* nothing here: instance.is_returned is False.)
update_book_availability_on_checkout(p) ==
    /\ procs[p].pc = "ck_signal"
    /\ LET book == procs[p].book
           dec == [book EXCEPT !.available_copies = @ - 1]
       IN IF book.available_copies > 0
          THEN IF Book_full_clean(dec)
               THEN /\ books' = [books EXCEPT ![procs[p].book_id].available_copies = dec.available_copies]
                    /\ procs' = [procs EXCEPT ![p] = [procs[p] EXCEPT !.pc = "ck_save", !.book = dec]]
               ELSE /\ procs' = [procs EXCEPT ![p] = Return(p, "ValidationError")]
                    /\ UNCHANGED books
          ELSE /\ procs' = [procs EXCEPT ![p] = [Goto(p, "ck_save") EXCEPT !.skipped = TRUE]]
               /\ UNCHANGED books
    /\ UNCHANGED <<signals_connected, now, checkouts, log>>

\* book.available_copies -= 1; book.save()
checkout_save(p) ==
    /\ procs[p].pc = "ck_save"
    /\ LET dec == [procs[p].book EXCEPT !.available_copies = @ - 1]
       IN IF Book_full_clean(dec)
          THEN /\ books' = [books EXCEPT ![procs[p].book_id] = dec]
               /\ procs' = [procs EXCEPT ![p] = Return(p, "ok")]
          ELSE /\ procs' = [procs EXCEPT ![p] = Return(p, "ValidationError")]
               /\ UNCHANGED books
    /\ UNCHANGED <<signals_connected, now, checkouts, log>>

\* ------------------------------------------ BookViewSet.return_book steps

\* book = get_object_or_404(...)
return_book_get(p) ==
    /\ procs[p].pc = "rt_get"
    /\ procs' = [procs EXCEPT ![p] = [procs[p] EXCEPT !.pc = "rt_first", !.book = books[procs[p].book_id]]]
    /\ UNCHANGED <<signals_connected, now, books, checkouts, log>>

\* a return_book whose query leaves out is_returned=False: it takes the
\* member's newest Checkout of the book, returned or not
return_book_first_any(p) ==
    /\ procs[p].pc = "rt_first"
    /\ LET S == Checkout_filter(checkouts, procs[p].user, procs[p].book_id, FALSE)
                \cup Checkout_filter(checkouts, procs[p].user, procs[p].book_id, TRUE)
       IN procs' = [procs EXCEPT ![p] =
                      IF S = {}
                      THEN Return(p, "not_checked_out")
                      ELSE [procs[p] EXCEPT !.pc = "rt_clean",
                              !.checkout = [Instance(checkouts, Checkout_first(checkouts, S))
                                              EXCEPT !.is_returned = TRUE, !.return_date = now]]]
    /\ UNCHANGED <<signals_connected, now, books, checkouts, log>>

\* checkout = Checkout.objects.filter(..., is_returned=False).first();
\* if not checkout: 400; checkout.is_returned = True;
\* checkout.return_date = timezone.now()
return_book_first(p) ==
    /\ procs[p].pc = "rt_first"
    /\ LET S == Checkout_filter(checkouts, procs[p].user, procs[p].book_id, FALSE)
       IN procs' = [procs EXCEPT ![p] =
                      IF S = {}
                      THEN Return(p, "not_checked_out")
                      ELSE [procs[p] EXCEPT !.pc = "rt_clean",
                              !.checkout = [Instance(checkouts, Checkout_first(checkouts, S))
                                              EXCEPT !.is_returned = TRUE, !.return_date = now]]]
    /\ UNCHANGED <<signals_connected, now, books, checkouts, log>>

\* checkout.save() up to the end of full_clean()
return_book_full_clean(p) ==
    /\ procs[p].pc = "rt_clean"
    /\ LET c == Checkout_presave(procs[p].checkout, now)
       IN procs' = [procs EXCEPT ![p] =
                      IF Checkout_clean(checkouts, c) /\ Checkout_validate_unique(checkouts, c)
                      THEN [procs[p] EXCEPT !.pc = "rt_update", !.checkout = c]
                      ELSE Return(p, "ValidationError")]
    /\ UNCHANGED <<signals_connected, now, books, checkouts, log>>

\* super().save(): the UPDATE of the row, all fields
return_book_update(p) ==
    /\ procs[p].pc = "rt_update"
    /\ LET c == procs[p].checkout
       IN IF unique_together(checkouts, c)
          THEN /\ checkouts' = [checkouts EXCEPT ![c.pk] = Row(c)]
               /\ procs' = [procs EXCEPT ![p] =
                              [procs[p] EXCEPT !.pc = IF signals_connected THEN "rt_signal" ELSE "rt_save",
                                               !.wrote = TRUE]]
          ELSE /\ procs' = [procs EXCEPT ![p] = Return(p, "IntegrityError")]
               /\ UNCHANGED checkouts
    /\ UNCHANGED <<signals_connected, now, books, log>>

\* post_save receiver update_book_availability_on_return: instance.book is
\* loaded from the database (the instance came from a query), then tested.
\* (update_book_availability_on_checkout does nothing: created is False.)
update_book_availability_on_return(p) ==
    /\ procs[p].pc = "rt_signal"
    /\ LET c == procs[p].checkout
           book == books[c.book]
       IN procs' = [procs EXCEPT ![p] =
                      IF c.is_returned /\ c.return_date # None /\ book.available_copies < book.total_copies
                      THEN [procs[p] EXCEPT !.pc = "rt_signal_save", !.sbook = book]
                      ELSE [Goto(p, "rt_save") EXCEPT
                              !.skipped = c.is_returned /\ c.return_date # None]]
    /\ UNCHANGED <<signals_connected, now, books, checkouts, log>>

\* ... book.available_copies += 1; book.save(update_fields=['available_copies'])
update_book_availability_on_return_save(p) ==
    /\ procs[p].pc = "rt_signal_save"
    /\ LET inc == [procs[p].sbook EXCEPT !.available_copies = @ + 1]
       IN IF Book_full_clean(inc)
          THEN /\ books' = [books EXCEPT ![procs[p].book_id].available_copies = inc.available_copies]
               /\ procs' = [procs EXCEPT ![p] = [procs[p] EXCEPT !.pc = "rt_save", !.sbook = NoBook]]
          ELSE /\ procs' = [procs EXCEPT ![p] = Return(p, "ValidationError")]
               /\ UNCHANGED books
    /\ UNCHANGED <<signals_connected, now, checkouts, log>>

\* book.available_copies += 1; book.save()
return_book_save(p) ==
    /\ procs[p].pc = "rt_save"
    /\ LET inc == [procs[p].book EXCEPT !.available_copies = @ + 1]
       IN IF Book_full_clean(inc)
          THEN /\ books' = [books EXCEPT ![procs[p].book_id] = inc]
               /\ procs' = [procs EXCEPT ![p] = Return(p, "ok")]
          ELSE /\ procs' = [procs EXCEPT ![p] = Return(p, "ValidationError")]
               /\ UNCHANGED books
    /\ UNCHANGED <<signals_connected, now, checkouts, log>>

\* the response has been sent; the worker takes the next request
Finish(p) ==
    /\ procs[p].pc = "done"
    /\ procs' = [procs EXCEPT ![p] = Idle]
    /\ UNCHANGED <<signals_connected, now, books, checkouts, log>>

\* one statement of the request handled by p
Step(p) ==
    \/ checkout_get(p)
    \/ checkout_exists(p)
    \/ checkout_full_clean(p)
    \/ checkout_insert(p)
    \/ update_book_availability_on_checkout(p)
    \/ checkout_save(p)
    \/ return_book_get(p)
    \/ return_book_first(p)
    \/ return_book_full_clean(p)
    \/ return_book_update(p)
    \/ update_book_availability_on_return(p)
    \/ update_book_availability_on_return_save(p)
    \/ return_book_save(p)

\* ------------------------------------------------------- specifications

\* the stored books: every Book row went through Book.save
ValidBooks ==
    {b \in [total_copies : 1..MaxCopies, available_copies : 0..MaxCopies] : Book_full_clean(b)}

\* Concurrent requests on an initially empty Checkout table.
Init ==
    /\ signals_connected \in Registrations
    /\ now = 0
    /\ books \in [BookIds -> ValidBooks]
    /\ checkouts = << >>
    /\ procs = [p \in Procs |-> Idle]
    /\ log = << >>

Next ==
    \/ \E p \in Procs, o \in {"checkout", "return_book"}, u \in Users, b \in BookIds : Start(p, o, u, b)
    \/ \E p \in Procs : Step(p)
    \/ \E p \in Procs : Finish(p)

Spec == Init /\ [][Next]_vars

\* Sequential requests: one worker, every call recorded in log with the
\* book's counter before and after it, the number of Checkout rows and of
\* OPEN rows its (member, book) pair had before it, and the Checkout table
\* before and after it.
Call(o, u, b) ==
    [op |-> o, user |-> u, book_id |-> b, result |-> "pending",
     before |-> books[b].available_copies, after |-> books[b].available_copies,
     rows_before |-> Cardinality(Checkout_filter(checkouts, u, b, TRUE)
                                 \cup Checkout_filter(checkouts, u, b, FALSE)),
     open_before |-> Cardinality(Checkout_filter(checkouts, u, b, FALSE)),
     table_before |-> checkouts, table_after |-> checkouts]

StartCall(o, u, b) ==
    /\ Len(log) < MaxCalls
    /\ procs[1].pc = "idle"
    /\ o = "checkout" => Len(checkouts) < MaxRows
    /\ procs' = [procs EXCEPT ![1] = [Idle EXCEPT !.pc = IF o = "checkout" THEN "ck_get" ELSE "rt_get",
                                                  !.op = o, !.user = u, !.book_id = b]]
    /\ log' = Append(log, Call(o, u, b))
    /\ UNCHANGED <<signals_connected, now, books, checkouts>>

FinishCall ==
    /\ procs[1].pc = "done"
    /\ procs' = [procs EXCEPT ![1] = Idle]
    /\ log' = [log EXCEPT ![Len(log)].result = procs[1].result,
                          ![Len(log)].after = books[procs[1].book_id].available_copies,
                          ![Len(log)].table_after = checkouts]
    /\ UNCHANGED <<signals_connected, now, books, checkouts>>

NextSeq ==
    \/ \E o \in {"checkout", "return_book"}, u \in Users, b \in BookIds : StartCall(o, u, b)
    \/ Step(1)
    \/ FinishCall

SpecSeq == Init /\ [][NextSeq]_vars

\* Two calls racing: both requests have arrived, on any stored books and an
\* empty Checkout table; log[p] records the call of worker p.
InitRace ==
    /\ signals_connected \in Registrations
    /\ now = 0
    /\ books \in [BookIds -> ValidBooks]
    /\ checkouts = << >>
    /\ \E o1, o2 \in {"checkout", "return_book"}, u1, u2 \in Users, b1, b2 \in BookIds :
         /\ procs = [p \in Procs |->
                       IF p = 1
                       THEN [Idle EXCEPT !.pc = IF o1 = "checkout" THEN "ck_get" ELSE "rt_get",
                                         !.op = o1, !.user = u1, !.book_id = b1]
                       ELSE IF p = 2
                       THEN [Idle EXCEPT !.pc = IF o2 = "checkout" THEN "ck_get" ELSE "rt_get",
                                         !.op = o2, !.user = u2, !.book_id = b2]
                       ELSE Idle]
         /\ log = <<Call(o1, u1, b1), Call(o2, u2, b2)>>

NextRace == \E p \in Procs : Step(p)

SpecRace == InitRace /\ [][NextRace]_vars

\* Two calls racing after up to MaxSetup calls handled one after another by
\* worker 1 (so that the race can start with books on loan); the two racing
\* calls are the last two records of log.
StartSetup(o, u, b) ==
    /\ Len(log) < MaxSetup
    /\ procs[2].pc = "idle"
    /\ StartCall(o, u, b)

FinishSetup ==
    /\ procs[2].pc = "idle"
    /\ FinishCall

\* two requests for the same book arrive together
StartRace(o1, u1, o2, u2, b) ==
    /\ procs[1].pc = "idle" /\ procs[2].pc = "idle"
    /\ procs' = [p \in Procs |->
                   IF p = 1
                   THEN [Idle EXCEPT !.pc = IF o1 = "checkout" THEN "ck_get" ELSE "rt_get",
                                     !.op = o1, !.user = u1, !.book_id = b]
                   ELSE IF p = 2
                   THEN [Idle EXCEPT !.pc = IF o2 = "checkout" THEN "ck_get" ELSE "rt_get",
                                     !.op = o2, !.user = u2, !.book_id = b]
                   ELSE Idle]
    /\ log' = log \o <<Call(o1, u1, b), Call(o2, u2, b)>>
    /\ UNCHANGED <<signals_connected, now, books, checkouts>>

NextLoanRace ==
    \/ \E o \in {"checkout", "return_book"}, u \in Users, b \in BookIds : StartSetup(o, u, b)
    \/ FinishSetup
    \/ \E o1, o2 \in {"checkout", "return_book"}, u1, u2 \in Users, b \in BookIds :
          StartRace(o1, u1, o2, u2, b)
    \/ \E p \in Procs : Step(p)

SpecLoanRace == Init /\ [][NextLoanRace]_vars

\* time passes
Tick ==
    /\ \E t \in Instants : t > now /\ now' = t
    /\ UNCHANGED <<signals_connected, books, checkouts, procs, log>>

\* Sequential requests with a running clock.
StartTimed(o, u, b) ==
    /\ o = "checkout" => Len(checkouts) < MaxTimedRows
    /\ Start(1, o, u, b)

NextTime ==
    \/ \E o \in {"checkout", "return_book"}, u \in Users, b \in BookIds : StartTimed(o, u, b)
    \/ Step(1)
    \/ Finish(1)
    \/ Tick

SpecTime == Init /\ [][NextTime]_vars

\* the bodies of a PATCH checkouts/<id>/ request: any of user, book,
\* is_returned and return_date, the others left out
Bodies ==
    [user : {Absent} \cup Users, book : {Absent} \cup BookIds,
     is_returned : {"absent", "True", "False"}, return_date : {Absent, None, now}]

\* CheckoutSerializer.validate: "ok", or the exception it raises.
\* checkout_date is read-only and so never in attrs: the comparison of a
\* given return_date with attrs.get("checkout_date", None) is a TypeError.
CheckoutSerializer_validate(rows, attrs) ==
    IF attrs.is_returned # "True" /\ Checkout_filter(rows, attrs.user, attrs.book, FALSE) # {}
    THEN "ValidationError"
    ELSE IF attrs.return_date # Absent /\ attrs.return_date # None
    THEN "TypeError"
    ELSE "ok"

\* ModelSerializer.update: setattr(instance, attr, value) for the given keys
CheckoutSerializer_update(c, attrs) ==
    [c EXCEPT !.user = IF attrs.user = Absent THEN @ ELSE attrs.user,
              !.book = IF attrs.book = Absent THEN @ ELSE attrs.book,
              !.is_returned = IF attrs.is_returned = "absent" THEN @ ELSE attrs.is_returned = "True",
              !.return_date = IF attrs.return_date = Absent THEN @ ELSE attrs.return_date]

\* the book counter after the post_save receivers have run for the saved
\* instance c of an UPDATE (created is False, so only
\* update_book_availability_on_return can act)
post_save_update(bks, c) ==
    LET book == bks[c.book]
        inc == [book EXCEPT !.available_copies = @ + 1]
    IN IF /\ signals_connected
          /\ c.is_returned /\ c.return_date # None
          /\ book.available_copies < book.total_copies
          /\ Book_full_clean(inc)
       THEN [bks EXCEPT ![c.book].available_copies = inc.available_copies]
       ELSE bks

\* CheckoutViewSet (a ModelViewSet): PATCH checkouts/<id>/ with body attrs,
\* handled while no other request runs
CheckoutViewSet_partial_update(k, attrs) ==
    /\ procs[1].pc = "idle"
    /\ k \in Pks
    /\ CheckoutSerializer_validate(checkouts, attrs) = "ok"
    /\ LET c == Checkout_presave(CheckoutSerializer_update(Instance(checkouts, k), attrs), now)
       IN /\ Checkout_clean(checkouts, c)
          /\ Checkout_validate_unique(checkouts, c)
          /\ unique_together(checkouts, c)
          /\ checkouts' = [checkouts EXCEPT ![k] = Row(c)]
          /\ books' = post_save_update(books, c)
    /\ UNCHANGED <<signals_connected, now, procs, log>>

\* Sequential requests, the Checkout resource's update among them.
NextApi ==
    \/ \E o \in {"checkout", "return_book"}, u \in Users, b \in BookIds : Start(1, o, u, b)
    \/ Step(1)
    \/ Finish(1)
    \/ \E k \in Pks : \E attrs \in Bodies : CheckoutViewSet_partial_update(k, attrs)

SpecApi == Init /\ [][NextApi]_vars

\* the book counters after the post_save receivers have run for the
\* instance c of an INSERT (created is True, and update_book_availability_on_return
\* needs the return_date that no created instance has): instance.book is the
\* book the form loaded
post_save_create(bks, c) ==
    LET book == bks[c.book]
        dec == [book EXCEPT !.available_copies = @ - 1]
    IN IF /\ signals_connected
          /\ ~c.is_returned
          /\ book.available_copies > 0
          /\ Book_full_clean(dec)
       THEN [bks EXCEPT ![c.book].available_copies = dec.available_copies]
       ELSE bks

\* the worker's record of an admin request that has been answered; the
\* instance the form built is kept for inspection
Answered(o, c, r) ==
    [Idle EXCEPT !.pc = "done", !.op = o, !.user = c.user, !.book_id = c.book,
                 !.checkout = c, !.result = r, !.wrote = (r = "ok")]

\* CheckoutAdmin, the change form of Checkout k saved with return_date rd
\* and is_returned ir (the other fields as loaded).  ModelForm validation
\* runs full_clean() and validate_unique() on the instance, a valid form is
\* saved with Checkout.save; the admin view is one transaction.
CheckoutAdmin_change(k, rd, ir) ==
    /\ procs[1].pc = "idle"
    /\ k \in Pks
    /\ LET f == [Instance(checkouts, k) EXCEPT !.return_date = rd, !.is_returned = ir]
           c == Checkout_presave(f, now)
           r == IF ~(Checkout_clean(checkouts, f) /\ Checkout_validate_unique(checkouts, f))
                THEN "ValidationError"
                ELSE IF ~(Checkout_clean(checkouts, c) /\ Checkout_validate_unique(checkouts, c))
                THEN "ValidationError"
                ELSE IF ~unique_together(checkouts, c)
                THEN "IntegrityError"
                ELSE "ok"
       IN /\ procs' = [procs EXCEPT ![1] = Answered("admin_change", f, r)]
          /\ IF r = "ok"
             THEN /\ checkouts' = [checkouts EXCEPT ![k] = Row(c)]
                  /\ books' = post_save_update(books, c)
             ELSE UNCHANGED <<checkouts, books>>
    /\ UNCHANGED <<signals_connected, now, log>>

\* CheckoutAdmin, the add form saved for member u and book b with
\* return_date rd and is_returned ir (due_date a loan period from now).
\* Checkout.clean runs on the unsaved instance, whose checkout_date is
\* still None (auto_now_add sets it at the INSERT): comparing a given
\* return_date with it is a TypeError.
CheckoutAdmin_add(u, b, rd, ir) ==
    /\ procs[1].pc = "idle"
    /\ Len(checkouts) < MaxTimedRows
    /\ LET f == [NoCheckout EXCEPT !.user = u, !.book = b, !.due_date = now + LOAN_DAYS * DAY,
                                   !.return_date = rd, !.is_returned = ir]
           c == [Checkout_presave(f, now) EXCEPT !.checkout_date = now, !.pk = Len(checkouts) + 1]
           r == IF ~ir /\ Checkout_filter(checkouts, u, b, FALSE) # {}
                THEN "ValidationError"
                ELSE IF rd # None
                THEN "TypeError"
                ELSE IF ~Checkout_validate_unique(checkouts, f)
                THEN "ValidationError"
                ELSE IF ~unique_together(checkouts, c)
                THEN "IntegrityError"
                ELSE "ok"
       IN /\ procs' = [procs EXCEPT ![1] = Answered("admin_add", f, r)]
          /\ IF r = "ok"
             THEN /\ checkouts' = Append(checkouts, Row(c))
                  /\ books' = post_save_create(books, c)
             ELSE UNCHANGED <<checkouts, books>>
    /\ UNCHANGED <<signals_connected, now, log>>

\* Sequential requests with a running clock, the admin's Checkout forms
\* among them.
NextAdmin ==
    \/ \E o \in {"checkout", "return_book"}, u \in Users, b \in BookIds : StartTimed(o, u, b)
    \/ Step(1)
    \/ Finish(1)
    \/ Tick
    \/ \E k \in Pks, rd \in {None} \cup Instants, ir \in BOOLEAN : CheckoutAdmin_change(k, rd, ir)
    \/ \E u \in Users, b \in BookIds, rd \in {None} \cup Instants, ir \in BOOLEAN :
          CheckoutAdmin_add(u, b, rd, ir)

SpecAdmin == Init /\ [][NextAdmin]_vars

\* ================================================================ claims

\* the requests that have returned
Done == {p \in Procs : procs[p].pc = "done"}

\* the OPEN checkouts of a (member, book) pair
Open(u, b) == Checkout_filter(checkouts, u, b, FALSE)

\* C1: in every state, and so after every checkout or return_book call of
\* any sequence or interleaving of calls, every stored book has
\* 0 <= available_copies <= total_copies.
C1_AvailableWithinBounds ==
    \A b \in BookIds :
        /\ 0 <= books[b].available_copies
        /\ books[b].available_copies <= books[b].total_copies

\* C1 witness: a checkout has succeeded and taken the counter to 0, and a
\* return_book has succeeded and brought it back to total_copies.
C1_Witness ==
    \E p, q \in Done, b \in BookIds :
        /\ procs[p].op = "checkout" /\ procs[p].result = "ok" /\ procs[p].book_id = b
        /\ procs[q].op = "return_book" /\ procs[q].result = "ok" /\ procs[q].book_id = b
        /\ books[b].available_copies = books[b].total_copies

\* C2: in every state there is at most one stored Checkout with
\* is_returned = false for every (member, book) pair.
C2_AtMostOneOpen ==
    \A u \in Users, b \in BookIds : Cardinality(Open(u, b)) <= 1

\* C2 witness: two checkout calls of the same member for the same book have
\* raced past the handler's checks; one inserted its row and the other was
\* stopped by the unique index.
C2_Witness ==
    \E p, q \in Done :
        /\ procs[p].op = "checkout" /\ procs[q].op = "checkout"
        /\ procs[p].user = procs[q].user /\ procs[p].book_id = procs[q].book_id
        /\ procs[p].result = "ok" /\ procs[q].result = "IntegrityError"
        /\ Cardinality(Open(procs[p].user, procs[p].book_id)) = 1

\* C6: a checkout or return_book call that ends in an error has written
\* nothing: no Checkout row added or modified, no counter changed.
C6_FailedCallWroteNothing ==
    \A p \in Done : procs[p].result # "ok" => ~procs[p].wrote

\* the two racing calls of SpecRace have both returned
RaceOver == procs[1].pc = "done" /\ procs[2].pc = "done"

\* the outcomes of the two racing calls
RaceResults == {procs[1].result, procs[2].result}

\* all Checkout rows of a (member, book) pair
RowsOf(u, b) == Checkout_filter(checkouts, u, b, TRUE) \cup Checkout_filter(checkouts, u, b, FALSE)

\* the OPEN checkouts of a book
OpenOfBook(b) == {k \in Pks : checkouts[k].book = b /\ ~checkouts[k].is_returned}

\* C3: two concurrent checkout calls by different members on a book with
\* available_copies = 1 never both succeed, and never leave two OPEN
\* checkouts of that last copy (the loser is refused, not served).
C3_LastCopyRace ==
    ( /\ RaceOver
      /\ procs[1].op = "checkout" /\ procs[2].op = "checkout"
      /\ procs[1].book_id = procs[2].book_id
      /\ procs[1].user # procs[2].user
      /\ log[1].before = 1 )
    => /\ ~(procs[1].result = "ok" /\ procs[2].result = "ok")
       /\ Cardinality(OpenOfBook(procs[1].book_id)) <= 1

\* C4: two concurrent checkout calls of the same member for the same book
\* with copies for both available: exactly one succeeds, the other gets the
\* 'Already checked out' answer, one row is inserted and available_copies
\* has dropped by exactly 1.
C4_SamePairRace ==
    ( /\ RaceOver
      /\ procs[1].op = "checkout" /\ procs[2].op = "checkout"
      /\ procs[1].book_id = procs[2].book_id
      /\ procs[1].user = procs[2].user
      /\ log[1].before >= 2 )
    => /\ procs[1].result # procs[2].result
       /\ RaceResults = {"ok", "already"}
       /\ Cardinality(RowsOf(procs[1].user, procs[1].book_id)) = 1
       /\ books[procs[1].book_id].available_copies = log[1].before - 1

\* C5: sequentially, a successful checkout by a member with no earlier
\* Checkout of the book, followed by that member's return_book of it,
\* restores available_copies to its value before the checkout and leaves
\* exactly one Checkout row for the pair, with is_returned = true.
C5_RoundTrip ==
    \A i \in 1..(Len(log) - 1) :
        ( /\ log[i].op = "checkout" /\ log[i].result = "ok" /\ log[i].rows_before = 0
          /\ log[i+1].op = "return_book" /\ log[i+1].result # "pending"
          /\ log[i+1].user = log[i].user /\ log[i+1].book_id = log[i].book_id )
        => /\ log[i+1].result = "ok"
           /\ log[i+1].after = log[i].before
           /\ i + 1 = Len(log) =>
                /\ Cardinality(RowsOf(log[i].user, log[i].book_id)) = 1
                /\ \A k \in RowsOf(log[i].user, log[i].book_id) : checkouts[k].is_returned

\* the members of the first n calls of the log
Callers(n) == {log[i].user : i \in 1..n}

\* the calls of the log so far follow the scenario on book b with N copies:
\* N checkouts by different members, a checkout by one more member, a
\* return by one of the holders, a checkout by the member turned away
FollowsScenario(b, N) ==
    /\ Len(log) >= 1
    /\ Len(log) <= N + 3
    /\ log[1].before = N
    /\ \A i \in 1..Len(log) :
         /\ log[i].book_id = b
         /\ i <= N + 1 => log[i].op = "checkout" /\ log[i].user \notin Callers(i - 1)
         /\ i = N + 2 => log[i].op = "return_book" /\ log[i].user \in Callers(N)
         /\ i = N + 3 => log[i].op = "checkout" /\ log[i].user = log[N + 1].user

\* C8: on a book with total_copies = available_copies = N and no checkouts,
\* N members check out one after another, each success lowering
\* available_copies by 1 down to 0; the next member is refused for want of
\* copies; after a holder returns available_copies is 1, and the refused
\* member's checkout succeeds.
C8_Scenario ==
    \A b \in BookIds :
        LET N == books[b].total_copies
        IN FollowsScenario(b, N) =>
             \A i \in 1..Len(log) :
                 log[i].result # "pending" =>
                     /\ i <= N => log[i].result = "ok" /\ log[i].after = N - i
                     /\ i = N + 1 => log[i].result = "no_copies" /\ log[i].after = 0
                     /\ i = N + 2 => log[i].result = "ok" /\ log[i].after = 1
                     /\ i = N + 3 => log[i].result = "ok" /\ log[i].after = 0

\* the fee the late-fee rule gives a loan due at due and returned at ret
ExpectedFee(due, ret) == IF ret > due THEN days(ret - due) * FEE_PER_DAY ELSE 0

\* C7: a checkout closed by return_book stores late_fee = whole days
\* between due_date and return_date times 1.00 when returned after
\* due_date, and 0 otherwise.
C7_LateFee ==
    \A k \in Pks :
        checkouts[k].is_returned /\ checkouts[k].return_date # None
        => checkouts[k].late_fee = ExpectedFee(checkouts[k].due_date, checkouts[k].return_date)

\* C10: every Checkout created by the checkout action has
\* due_date = checkout_date + 14 days exactly.
C10_DefaultDueDate ==
    \A k \in Pks : checkouts[k].due_date = checkouts[k].checkout_date + LOAN_DAYS * DAY

\* C9: a Checkout only moves OPEN -> RETURNED: no step of any operation of
\* the API takes a stored Checkout with is_returned = true back to
\* is_returned = false, or changes its return_date or late_fee.
C9_ReturnedIsFinal ==
    [][\A k \in Pks :
          checkouts[k].is_returned =>
              /\ checkouts'[k].is_returned
              /\ checkouts'[k].return_date = checkouts[k].return_date
              /\ checkouts'[k].late_fee = checkouts[k].late_fee]_vars

\* C11: sequentially, a checkout call by a member who already holds an OPEN
\* checkout of the book ends with the 'Already checked out' answer whatever
\* available_copies is (0 included), and leaves the Checkout table and
\* available_copies as they were.
C11_DuplicateBeforeAvailability ==
    \A i \in 1..Len(log) :
        ( /\ log[i].op = "checkout"
          /\ log[i].open_before > 0
          /\ log[i].result # "pending" )
        => /\ log[i].result = "already"
           /\ log[i].after = log[i].before
           /\ log[i].table_after = log[i].table_before

\* C12: sequentially, a return_book call by a member who has no OPEN
\* checkout of the book (none ever, or the last one already returned) ends
\* with the 'not checked out' answer and leaves every Checkout row and the
\* book's available_copies as they were; a second return of the same
\* checkout does not raise available_copies again.
C12_NothingToReturn ==
    \A i \in 1..Len(log) :
        ( /\ log[i].op = "return_book"
          /\ log[i].open_before = 0
          /\ log[i].result # "pending" )
        => /\ log[i].result = "not_checked_out"
           /\ log[i].after = log[i].before
           /\ log[i].table_after = log[i].table_before

\* C12 witness: a member's return_book has succeeded and the same member's
\* next return_book of the same book was refused; and a member who never
\* checked the book out was refused too.
C12_Witness ==
    /\ \E i \in 1..(Len(log) - 1) :
          /\ log[i].op = "return_book" /\ log[i].result = "ok"
          /\ log[i+1].op = "return_book" /\ log[i+1].result = "not_checked_out"
          /\ log[i+1].user = log[i].user /\ log[i+1].book_id = log[i].book_id
          /\ log[i+1].after = log[i].after
    /\ \E i \in 1..Len(log) :
          /\ log[i].op = "return_book" /\ log[i].result = "not_checked_out"
          /\ log[i].rows_before = 0

\* the change a successful call makes to the counter of its book
Delta(o) == IF o = "checkout" THEN -1 ELSE 1

\* the checkout calls among the two racing calls
RaceCheckouts == {p \in Procs : procs[p].op = "checkout"}

\* C13: concurrent calls of different members on the same book lose no
\* counter update: when the two racing calls (a checkout and a return_book,
\* two return_books, or two checkouts with a copy for each) have both
\* succeeded, available_copies is its value before the race plus the sum
\* of their deltas (-1 per checkout, +1 per return_book).
C13_NoLostUpdate ==
    ( /\ RaceOver
      /\ procs[1].user # procs[2].user
      /\ log[Len(log)].before >= Cardinality(RaceCheckouts)
      /\ procs[1].result = "ok" /\ procs[2].result = "ok" )
    => books[procs[1].book_id].available_copies
         = log[Len(log)].before + Delta(procs[1].op) + Delta(procs[2].op)

\* C14: an adjustment of available_copies that would leave [0, total_copies]
\* ends the call with an error and is never left out silently: no checkout
\* or return_book call ends successfully after one of its -1 / +1
\* adjustments was skipped because the counter stood at its limit.
C14_NoSilentSkip ==
    \A p \in Done : procs[p].result = "ok" => ~procs[p].skipped

\* the checkout_date a request's instance has, or gets at its INSERT
StoredCheckoutDate(c) == IF c.pk = 0 THEN now ELSE c.checkout_date

\* C15: every stored Checkout with a return_date has
\* return_date >= checkout_date, and a save of a Checkout whose return_date
\* is earlier than its checkout_date is answered with a validation error
\* and stores nothing.
C15_ReturnNotBeforeCheckout ==
    /\ \A k \in Pks :
          checkouts[k].return_date # None => checkouts[k].return_date >= checkouts[k].checkout_date
    /\ \A p \in Done :
          ( /\ procs[p].op \in {"admin_change", "admin_add"}
            /\ procs[p].checkout.return_date # None
            /\ procs[p].checkout.return_date < StoredCheckoutDate(procs[p].checkout) )
          => procs[p].result = "ValidationError" /\ ~procs[p].wrote

\* the run started with every copy of book b on the shelf
StartedFull(b) ==
    IF Len(log) = 0
    THEN books[b].available_copies = books[b].total_copies
    ELSE log[1].before = books[b].total_copies

\* C16: starting with available_copies = total_copies and no checkouts,
\* after any sequence of checkout and return_book calls every book has
\* available_copies = total_copies - (number of its OPEN checkouts).
C16_CopyConservation ==
    \A b \in BookIds :
        (procs[1].pc = "idle" /\ StartedFull(b))
        => books[b].available_copies = books[b].total_copies - Cardinality(OpenOfBook(b))

\* C17: sequentially, every return_book call of a member who holds an OPEN
\* checkout of the book succeeds and closes it, also when the member has
\* returned the book before: the pair then has one more row with
\* is_returned = true (two after a repeat loan) and no OPEN row.
C17_RepeatLoanReturn ==
    \A i \in 1..Len(log) :
        ( /\ log[i].op = "return_book"
          /\ log[i].open_before > 0
          /\ log[i].result # "pending" )
        => /\ log[i].result = "ok"
           /\ Checkout_filter(log[i].table_after, log[i].user, log[i].book_id, FALSE) = {}
           /\ Cardinality(Checkout_filter(log[i].table_after, log[i].user, log[i].book_id, TRUE))
                = Cardinality(Checkout_filter(log[i].table_before, log[i].user, log[i].book_id, TRUE)) + 1

====
